---- MODULE Spec2Model ----
(***************************************************************************)
(* One telephony media-stream session of the voice agent server: the       *)
(* TwilioAudioProcessor (frame buffer, noise gate, stream identity), the   *)
(* handlers that handleTwilioConnection wires to the telephony WebSocket   *)
(* (ws) and to the speech-peer WebSocket (deepgramConnection), and the     *)
(* connection-establishment timer.                                         *)
(*                                                                         *)
(* Every handler of the source is synchronous up to its end (the only      *)
(* await, in the speech-peer message handler, awaits a function that has   *)
(* already run to completion), so each handler is one atomic action.       *)
(***************************************************************************)
EXTENDS Integers, Sequences, FiniteSets, TLC

\* ------------------------------------------------------------------ bounds
\* Telephony events accepted per stream (caps messageCount, which stop resets).
MaxMessages == 3
\* Messages recorded per connection log (dgSent, wsSent).
MaxSent == 3
\* Function entries in one FunctionCallRequest.
MaxFunctions == 2
\* The longest frame given to the noise gate on its own, in samples.
MaxSamples == 2

\* ------------------------------------------------------- program constants
\* isValidAudioChunk: chunks shorter than this are invalid.
MinValidLength == 20
\* isValidAudioChunk: only this many leading bytes are inspected.
ValidationWindow == 100
\* preprocessAudio: the floor of the gate threshold.
MinGateThreshold == 100

\* ------------------------------------------------------- JavaScript values
Null == "null"
Undefined == "undefined"
\* An optional number: <<>> is undefined, <<n>> the number n.
NoNumber == <<>>
Num(n) == <<n>>

Abs(x) == IF x < 0 THEN -x ELSE x
Max(a, b) == IF a >= b THEN a ELSE b
Min(a, b) == IF a <= b THEN a ELSE b

\* `a > x` of JavaScript where x may be undefined (NaN compares false).
GreaterThan(a, x) == x # NoNumber /\ a > x[1]

\* ------------------------------------------------------------------ base64
\* A base64 text is a sequence of sextets 0..63; Pad stands for '='.
Pad == 64

\* Buffer.toString('base64'): three bytes make four sextets, the last group
\* is padded.
Base64Encode(b) ==
    LET byte(k) == IF k <= Len(b) THEN b[k] ELSE 0
        sextet(j) ==
            LET k == 3 * ((j - 1) \div 4) + 1
            IN CASE j % 4 = 1 -> byte(k) \div 4
                 [] j % 4 = 2 -> (byte(k) % 4) * 16 + byte(k + 1) \div 16
                 [] j % 4 = 3 -> IF k + 1 > Len(b) THEN Pad
                                 ELSE (byte(k + 1) % 16) * 4 + byte(k + 2) \div 64
                 [] OTHER -> IF k + 2 > Len(b) THEN Pad ELSE byte(k + 2) % 64
    IN [j \in 1..(4 * ((Len(b) + 2) \div 3)) |-> sextet(j)]

\* Buffer.from(text, 'base64'): decoding stops at the first '='; every four
\* sextets make three bytes, a rest of two or three makes one or two.
Base64Decode(s) ==
    LET pads == {j \in 1..Len(s) : s[j] = Pad}
        n == IF pads = {} THEN Len(s)
             ELSE (CHOOSE j \in pads : \A i \in pads : j <= i) - 1
        byte(k) ==
            LET j == 4 * ((k - 1) \div 3) + 1
            IN CASE k % 3 = 1 -> s[j] * 4 + s[j + 1] \div 16
                 [] k % 3 = 2 -> (s[j + 1] % 16) * 16 + s[j + 2] \div 4
                 [] OTHER -> (s[j + 2] % 4) * 64 + s[j + 3]
    IN [k \in 1..((n * 6) \div 8) |-> byte(k)]

\* ------------------------------------------------------------ frame buffer
RECURSIVE Concat(_)
Concat(chunks) ==
    IF chunks = <<>> THEN <<>> ELSE Head(chunks) \o Concat(Tail(chunks))

RECURSIVE getBufferSize(_)
getBufferSize(buf) ==
    IF buf = <<>> THEN 0 ELSE Len(Head(buf)) + getBufferSize(Tail(buf))

\* The number of leading chunks whose lengths first add up to size; 0 if none.
chunkCount(buf, size) ==
    LET enough == {i \in 1..Len(buf) : getBufferSize(SubSeq(buf, 1, i)) >= size}
    IN IF enough = {} THEN 0 ELSE CHOOSE i \in enough : \A j \in enough : i <= j

\* A faulty variant: the fragments consumed are returned whole.
extractChunkOfWholeFragments(buf, size) ==
    LET n == chunkCount(buf, size)
    IN IF n = 0 THEN [found |-> FALSE, chunk |-> <<>>, inBuffer |-> buf]
       ELSE [found |-> TRUE, chunk |-> Concat(SubSeq(buf, 1, n)),
             inBuffer |-> SubSeq(buf, n + 1, Len(buf))]

\* A faulty variant: the excess beyond size is not put back.
extractChunkDropsExcess(buf, size) ==
    LET n == chunkCount(buf, size)
        result == Concat(SubSeq(buf, 1, n))
    IN IF n = 0 THEN [found |-> FALSE, chunk |-> <<>>, inBuffer |-> buf]
       ELSE [found |-> TRUE, chunk |-> SubSeq(result, 1, Min(size, Len(result))),
             inBuffer |-> SubSeq(buf, n + 1, Len(buf))]

extractChunk(buf, size) ==
    LET n == chunkCount(buf, size)
        result == Concat(SubSeq(buf, 1, n))
        rest == SubSeq(buf, n + 1, Len(buf))
    IN IF n = 0 THEN [found |-> FALSE, chunk |-> <<>>, inBuffer |-> buf]
       ELSE IF Len(result) > size
            THEN [found |-> TRUE, chunk |-> SubSeq(result, 1, size),
                  inBuffer |-> <<SubSeq(result, size + 1, Len(result))>> \o rest]
       ELSE [found |-> TRUE, chunk |-> result, inBuffer |-> rest]

\* -------------------------------------------------------------- noise gate
\* 16-bit signed little-endian samples of a byte block (Int16Array over it:
\* a trailing odd byte is not part of any sample).
ToInt16(lo, hi) ==
    LET u == lo + 256 * hi IN IF u >= 32768 THEN u - 65536 ELSE u

Int16Array(b) == [i \in 1..(Len(b) \div 2) |-> ToInt16(b[2 * i - 1], b[2 * i])]

\* The bytes of an Int16Array's buffer.
BufferFrom(samples) ==
    [k \in 1..(2 * Len(samples)) |->
        LET v == samples[(k + 1) \div 2]
            u == IF v < 0 THEN v + 65536 ELSE v
        IN IF k % 2 = 1 THEN u % 256 ELSE u \div 256]

\* A faulty variant: a sample at the threshold passes the gate.
aboveGateInclusive(amplitude, maxAmplitude, threshold) ==
    /\ threshold # NoNumber
    /\ amplitude * threshold[2] >= maxAmplitude * threshold[1]
    /\ amplitude >= MinGateThreshold

\* A faulty variant: the threshold has no floor and a sample at it passes.
aboveGateWithoutFloor(amplitude, maxAmplitude, threshold) ==
    /\ threshold # NoNumber
    /\ amplitude * threshold[2] >= maxAmplitude * threshold[1]

\* amplitude > Math.max(maxAmplitude * threshold, 100): threshold is the
\* fraction num/den, or undefined, which makes the product and the maximum
\* NaN and every comparison false.
aboveGate(amplitude, maxAmplitude, threshold) ==
    /\ threshold # NoNumber
    /\ amplitude * threshold[2] > maxAmplitude * threshold[1]
    /\ amplitude > MinGateThreshold

preprocessAudio(audioBuffer, threshold) ==
    LET samples == Int16Array(audioBuffer)
        maxAmplitude ==
            IF Len(samples) = 0 THEN 0
            ELSE CHOOSE a \in {Abs(samples[i]) : i \in 1..Len(samples)} :
                    \A i \in 1..Len(samples) : Abs(samples[i]) <= a
        processedSamples ==
            [i \in 1..Len(samples) |->
                IF aboveGate(Abs(samples[i]), maxAmplitude, threshold)
                THEN samples[i] ELSE 0]
        hasSignificantAudio ==
            \E i \in 1..Len(samples) :
                aboveGate(Abs(samples[i]), maxAmplitude, threshold)
    IN IF ~hasSignificantAudio THEN <<>> ELSE BufferFrom(processedSamples)

isValidAudioChunk(audioChunk) ==
    /\ ~(Len(audioChunk) < MinValidLength)
    /\ \E i \in 1..Min(Len(audioChunk), ValidationWindow) : audioChunk[i] # 0

\* ------------------------------------------------- TwilioAudioProcessor
\* The processor's configuration as handleTwilioConnection passes it: only
\* bufferSize is given, minChunkSize and noiseThreshold are undefined.
WiredConfig ==
    [bufferSize |-> 20 * 160, minChunkSize |-> NoNumber, noiseThreshold |-> NoNumber]

\* A full TwilioAudioProcessorConfig with the documented values (minimum
\* chunk size 20, noise threshold 0.005) and a frame of 48 bytes.
ReferenceConfig ==
    [bufferSize |-> 48, minChunkSize |-> Num(20), noiseThreshold |-> <<5, 1000>>]

Configs == {WiredConfig, ReferenceConfig}

newTwilioAudioProcessor(config) ==
    [config |-> config, inBuffer |-> <<>>, hasSeenMedia |-> FALSE,
     messageCount |-> 0, isProcessingAudio |-> FALSE, streamSid |-> Null]

\* What one call of a processor method leaves behind: the processor, the
\* audio it sent on the speech-peer connection, the chunks it pushed on
\* inBuffer and the chunks it took out of it.
Effect(p, sent, pushed, taken, reset) ==
    [p |-> p, sent |-> sent, pushed |-> pushed, taken |-> taken, reset |-> reset]

\* A faulty variant: the speech peer counts as ready until it has closed.
isDeepgramReadyUnlessClosed(readyState) == readyState # "CLOSED"

\* A faulty variant: the speech peer counts as ready in every state.
isDeepgramReadyAlways(readyState) == TRUE

isDeepgramReady(readyState) == readyState = "OPEN"

\* A faulty variant: the state is reset but the buffer is kept.
resetStateKeepsBuffer(p) ==
    [p EXCEPT !.hasSeenMedia = FALSE, !.messageCount = 0,
              !.isProcessingAudio = FALSE, !.streamSid = Null]

resetState(p) ==
    [p EXCEPT !.hasSeenMedia = FALSE, !.messageCount = 0,
              !.isProcessingAudio = FALSE, !.streamSid = Null, !.inBuffer = <<>>]

\* A faulty variant: while the speech peer is not ready the frames stay in
\* the buffer, to be sent once it is.
RECURSIVE processBufferKeepsUnsent(_, _, _)
processBufferKeepsUnsent(r, config, readyState) ==
    IF getBufferSize(r.inBuffer) >= config.bufferSize /\ isDeepgramReady(readyState)
    THEN LET x == extractChunk(r.inBuffer, config.bufferSize)
             processedChunk == preprocessAudio(x.chunk, config.noiseThreshold)
         IN processBufferKeepsUnsent(
                [inBuffer |-> x.inBuffer,
                 sent |-> IF Len(processedChunk) > 0
                          THEN Append(r.sent, processedChunk) ELSE r.sent,
                 taken |-> Append(r.taken, x.chunk)],
                config, readyState)
    ELSE r

\* A faulty variant: the loop goes on while any byte is buffered and takes
\* what is left as a last, shorter frame.
RECURSIVE processBufferToTheEnd(_, _, _)
processBufferToTheEnd(r, config, readyState) ==
    IF getBufferSize(r.inBuffer) > 0
    THEN LET x == extractChunk(r.inBuffer,
                               Min(config.bufferSize, getBufferSize(r.inBuffer)))
             processedChunk == preprocessAudio(x.chunk, config.noiseThreshold)
         IN processBufferToTheEnd(
                [inBuffer |-> x.inBuffer,
                 sent |-> IF Len(processedChunk) > 0 /\ isDeepgramReady(readyState)
                          THEN Append(r.sent, processedChunk) ELSE r.sent,
                 taken |-> Append(r.taken, x.chunk)],
                config, readyState)
    ELSE r

\* A faulty variant: an if in place of the while, so that at most one frame
\* is extracted for a fragment.
processBufferOnce(r, config, readyState) ==
    IF getBufferSize(r.inBuffer) >= config.bufferSize
    THEN LET x == extractChunk(r.inBuffer, config.bufferSize)
             processedChunk == preprocessAudio(x.chunk, config.noiseThreshold)
         IN [inBuffer |-> x.inBuffer,
             sent |-> IF Len(processedChunk) > 0 /\ isDeepgramReady(readyState)
                      THEN Append(r.sent, processedChunk) ELSE r.sent,
             taken |-> Append(r.taken, x.chunk)]
    ELSE r

\* The while loop of handleMediaEvent: r is [inBuffer, sent, taken].
RECURSIVE processBuffer(_, _, _)
processBuffer(r, config, readyState) ==
    IF getBufferSize(r.inBuffer) >= config.bufferSize
    THEN LET x == extractChunk(r.inBuffer, config.bufferSize)
             processedChunk == preprocessAudio(x.chunk, config.noiseThreshold)
         IN processBuffer(
                [inBuffer |-> x.inBuffer,
                 sent |-> IF Len(processedChunk) > 0 /\ isDeepgramReady(readyState)
                          THEN Append(r.sent, processedChunk) ELSE r.sent,
                 taken |-> Append(r.taken, x.chunk)],
                config, readyState)
    ELSE r

\* A faulty variant: media of every track is processed.
handleMediaEventOfAnyTrack(p, data, readyState) ==
    LET done == [p EXCEPT !.hasSeenMedia = TRUE, !.isProcessingAudio = FALSE]
        audioChunk == Base64Decode(data.payload)
        r == processBuffer([inBuffer |-> Append(p.inBuffer, audioChunk),
                            sent |-> <<>>, taken |-> <<>>], p.config, readyState)
    IN IF data.hasPayload
          /\ GreaterThan(Len(audioChunk), p.config.minChunkSize)
          /\ isValidAudioChunk(audioChunk)
       THEN Effect([done EXCEPT !.inBuffer = r.inBuffer], r.sent,
                   <<audioChunk>>, r.taken, FALSE)
       ELSE Effect(done, <<>>, <<>>, <<>>, FALSE)

\* A faulty variant: without the finally, a media event whose decoding
\* throws leaves the in-flight flag set.
handleMediaEventWithoutFinally(p, data, readyState) ==
    LET seen == [p EXCEPT !.hasSeenMedia = TRUE]
        done == [seen EXCEPT !.isProcessingAudio = FALSE]
        audioChunk == Base64Decode(data.payload)
        r == processBuffer([inBuffer |-> Append(p.inBuffer, audioChunk),
                            sent |-> <<>>, taken |-> <<>>], p.config, readyState)
    IN IF data.track = "inbound" /\ ~p.isProcessingAudio
       THEN IF ~data.hasPayload
            THEN Effect([seen EXCEPT !.isProcessingAudio = TRUE],
                        <<>>, <<>>, <<>>, FALSE)
            ELSE IF GreaterThan(Len(audioChunk), p.config.minChunkSize)
                    /\ isValidAudioChunk(audioChunk)
            THEN Effect([done EXCEPT !.inBuffer = r.inBuffer], r.sent,
                        <<audioChunk>>, r.taken, FALSE)
            ELSE Effect(done, <<>>, <<>>, <<>>, FALSE)
       ELSE Effect(seen, <<>>, <<>>, <<>>, FALSE)

\* data.hasPayload = FALSE is a media event without a payload string:
\* Buffer.from throws, the catch logs it and the finally clears the flag.
handleMediaEvent(p, data, readyState) ==
    LET seen == [p EXCEPT !.hasSeenMedia = TRUE]
        done == [seen EXCEPT !.isProcessingAudio = FALSE]
        audioChunk == Base64Decode(data.payload)
        r == processBuffer([inBuffer |-> Append(p.inBuffer, audioChunk),
                            sent |-> <<>>, taken |-> <<>>], p.config, readyState)
    IN IF data.track = "inbound" /\ ~p.isProcessingAudio
       THEN IF data.hasPayload
               /\ GreaterThan(Len(audioChunk), p.config.minChunkSize)
               /\ isValidAudioChunk(audioChunk)
            THEN Effect([done EXCEPT !.inBuffer = r.inBuffer], r.sent,
                        <<audioChunk>>, r.taken, FALSE)
            ELSE Effect(done, <<>>, <<>>, <<>>, FALSE)
       ELSE Effect(seen, <<>>, <<>>, <<>>, FALSE)

handleTwilioEvent(p, data, readyState) ==
    CASE data.event = "connected" -> Effect(p, <<>>, <<>>, <<>>, FALSE)
      [] data.event = "start" ->
            Effect([p EXCEPT !.streamSid = data.streamSid], <<>>, <<>>, <<>>, FALSE)
      [] data.event = "media" -> handleMediaEvent(p, data, readyState)
      [] data.event = "stop" -> Effect(resetState(p), <<>>, <<>>, <<>>, TRUE)
      [] OTHER -> Effect(p, <<>>, <<>>, <<>>, FALSE)

\* A faulty variant: the message is counted before it is parsed.
processMessageCountsFirst(p, message, readyState) ==
    IF message.valid
    THEN LET e == handleTwilioEvent(p, message.data, readyState)
         IN [e EXCEPT !.p.messageCount = e.p.messageCount + 1]
    ELSE Effect([p EXCEPT !.messageCount = @ + 1], <<>>, <<>>, <<>>, FALSE)

\* message.valid = FALSE is a text that JSON.parse rejects: processMessage
\* throws before anything changes and the caller's catch logs the error.
processMessage(p, message, readyState) ==
    IF message.valid
    THEN LET e == handleTwilioEvent(p, message.data, readyState)
         IN [e EXCEPT !.p.messageCount = e.p.messageCount + 1]
    ELSE Effect(p, <<>>, <<>>, <<>>, FALSE)

\* ------------------------------------------------------- function calls
\* The dispatch table: one registered handler, as in the documented example.
FUNCTION_MAP == {"getMedicationInfo"}

\* Function-valued properties every object literal inherits from
\* Object.prototype; the `in` operator finds them too.
ObjectPrototype == {"toString"}

\* funcName in FUNCTION_MAP
inFunctionMap(funcName) == funcName \in FUNCTION_MAP \cup ObjectPrototype

\* JSON.parse of the texts the model uses as a function entry's arguments.
ValidArguments == "{}"
MalformedArguments == "{"
JsonParses(text) == text = ValidArguments

FunctionCallResponse(id, name, content) ==
    [type |-> "FunctionCallResponse", id |-> id, name |-> name, content |-> content]

\* JSON.stringify of the results.
UnknownFunctionContent(funcName) ==
    "{\"error\":\"Unknown function: " \o funcName \o "\"}"
FailedContent == "{\"error\":\"Function call failed with: Error\"}"
ResultContent(funcName) ==
    IF funcName \in FUNCTION_MAP THEN "{\"result\":\"" \o funcName \o "\"}"
    ELSE "\"[object Object]\""

\* The catch of handleFunctionCallRequest.
errorResult == FunctionCallResponse("unknown", "unknown", FailedContent)

\* The for loop of handleFunctionCallRequest from entry i on: the responses
\* it sends. outcomes[i] says whether the registered handler called for
\* entry i returns or throws (the handlers are supplied by the deployment).
RECURSIVE callFunctions(_, _, _)
callFunctions(functions, outcomes, i) ==
    IF i > Len(functions) THEN <<>>
    ELSE LET functionCall == functions[i]
             funcName == functionCall.name
             funcId == functionCall.id
         IN IF ~JsonParses(functionCall.arguments) THEN <<errorResult>>
            ELSE IF inFunctionMap(funcName)
                 THEN IF funcName \in FUNCTION_MAP /\ outcomes[i] = "throws"
                      THEN <<errorResult>>
                      ELSE <<FunctionCallResponse(funcId, funcName,
                                                  ResultContent(funcName))>>
                           \o callFunctions(functions, outcomes, i + 1)
            ELSE <<FunctionCallResponse(funcId, funcName,
                                        UnknownFunctionContent(funcName))>>
                 \o callFunctions(functions, outcomes, i + 1)

\* message.hasFunctions = FALSE: message.functions is not iterable, the
\* for statement throws and the catch answers.
handleFunctionCallRequest(message, outcomes) ==
    IF message.hasFunctions THEN callFunctions(message.functions, outcomes, 1)
    ELSE <<errorResult>>

\* if (streamSid): null, undefined and the empty string are falsy.
Truthy(sid) == sid \notin {Null, Undefined, ""}

ClearMessage(sid) == [event |-> "clear", streamSid |-> sid]
MediaMessage(sid, data) ==
    [event |-> "media", streamSid |-> sid, payload |-> Base64Encode(data)]

\* A faulty variant: a barge-in sends nothing to the telephony peer.
handleTextMessageWithoutClear(message, sid, outcomes) ==
    [ws |-> <<>>,
     dg |-> IF message.type = "FunctionCallRequest"
            THEN handleFunctionCallRequest(message, outcomes) ELSE <<>>]

\* What handleTextMessage sends: [ws |-> to the telephony peer,
\* dg |-> to the speech peer].
handleTextMessage(message, sid, outcomes) ==
    [ws |-> IF message.type = "UserStartedSpeaking" /\ Truthy(sid)
            THEN <<ClearMessage(sid)>> ELSE <<>>,
     dg |-> IF message.type = "FunctionCallRequest"
            THEN handleFunctionCallRequest(message, outcomes) ELSE <<>>]

\* A faulty variant: raw audio is forwarded whether or not a stream is known.
forwardRawAudioAlways(m, sid) ==
    [ws |-> <<MediaMessage(sid, m.data)>>, dg |-> <<>>]

\* The catch of the speech-peer message handler: raw audio.
forwardRawAudio(m, sid) ==
    [ws |-> IF Truthy(sid) THEN <<MediaMessage(sid, m.data)>> ELSE <<>>, dg |-> <<>>]

\* deepgramConnection.on('message'). m.parsed is what JSON.parse makes of the
\* message text: "object" (m.message), "null" (typeof null is 'object' and
\* reading message.type throws into the catch), "scalar", or "throws".
onDeepgramMessage(m, sid, outcomes) ==
    CASE m.parsed = "object" -> handleTextMessage(m.message, sid, outcomes)
      [] m.parsed = "null" -> forwardRawAudio(m, sid)
      [] m.parsed = "scalar" -> [ws |-> <<>>, dg |-> <<>>]
      [] OTHER -> forwardRawAudio(m, sid)

\* ------------------------------------------------------------- the session
VARIABLES
    audioProcessor,     \* the TwilioAudioProcessor of the connection
    wsState,            \* ws.readyState (telephony peer)
    wsErrored,          \* ws has emitted 'error'
    dgState,            \* deepgramConnection.readyState (speech peer)
    connectionTimeout,  \* "armed", "cleared" or "fired"
    dgSent,             \* messages sent to the speech peer, in order
    wsSent,             \* messages sent to the telephony peer, in order
    appended,           \* history: chunks pushed on inBuffer since the last reset
    extracted,          \* history: chunks extractChunk returned since the last reset
    last,               \* history: the handler that ran last
    returned,           \* history: what the method called last was given and returned
    second              \* a second telephony connection, open at the same time

vars == <<audioProcessor, wsState, wsErrored, dgState, connectionTimeout,
          dgSent, wsSent, appended, extracted, last, returned, second>>

\* WebSocket.send of ws 8: data sent on a socket that is not OPEN is discarded.
send(log, readyState, messages) ==
    IF readyState = "OPEN" THEN log \o messages ELSE log

\* A faulty variant: close leaves the socket as it is.
closeLeavesOpen(readyState) == readyState

\* WebSocket.close: a no-op once CLOSED, else the closing handshake starts.
close(readyState) == IF readyState = "CLOSED" THEN "CLOSED" ELSE "CLOSING"

\* A faulty variant: the timer stays armed.
clearTimeoutForgotten(timer) == timer

clearTimeout(timer) == IF timer = "armed" THEN "cleared" ELSE timer

\* The record of a handler's run; for a stop event, also whether it found a
\* stream identity and buffered bytes to reset.
Ran(op) ==
    [op |-> op,
     hadStream |-> op = "stop" /\ Truthy(audioProcessor.streamSid),
     hadBytes |-> op = "stop" /\ getBufferSize(audioProcessor.inBuffer) > 0]

\* No method has been called on its own.
NoCall == [method |-> "none", input |-> <<>>, output |-> <<>>]

\* What one call of handleTwilioConnection constructs and its handlers close
\* over: the processor, the telephony socket it was given and the speech-peer
\* socket it opens, with what was sent on either.
handleTwilioConnection(config) ==
    [audioProcessor |-> newTwilioAudioProcessor(config),
     wsState |-> "OPEN", dgState |-> "CONNECTING", dgSent |-> <<>>, wsSent |-> <<>>]

\* A faulty variant: the server holds one processor, that of the first
\* connection, and the handlers of every connection use it.
processorOfServer(connection) == "first"

\* The processor the handlers of a connection use: the one constructed in
\* that connection's call of handleTwilioConnection.
processorOf(connection) == connection

AgentConfig == [type |-> "agentConfig"]
Binary(data) == [type |-> "binary", data |-> data]

\* ------------------------------------------------------------------ inputs
\* Audio fragments the telephony peer sends (decoded bytes).
LoudChunk == [i \in 1..24 |-> (100 + 9 * i) % 256]
QuietChunk == [i \in 1..30 |-> IF i % 2 = 1 THEN 40 + i ELSE 0]
LongChunk == [i \in 1..100 |-> (3 + 5 * i) % 256]
ShortChunk == [i \in 1..10 |-> i]
SilentChunk == [i \in 1..24 |-> 0]
Chunks == {LoudChunk, QuietChunk, LongChunk, ShortChunk, SilentChunk}

StreamSids == {"MZa", "MZb"}

TwilioEvent(event, sid, track, hasPayload, payload) ==
    [event |-> event, streamSid |-> sid, track |-> track,
     hasPayload |-> hasPayload, payload |-> payload]

\* The telephony messages: connected, start (with or without a streamSid),
\* media (inbound or outbound track, with or without a payload), stop, an
\* event of another name, and a text that is not JSON.
TwilioEvents ==
    {TwilioEvent("connected", Undefined, Undefined, FALSE, <<>>),
     TwilioEvent("stop", Undefined, Undefined, FALSE, <<>>),
     TwilioEvent("mark", Undefined, Undefined, FALSE, <<>>),
     TwilioEvent("media", Undefined, "inbound", FALSE, <<>>),
     TwilioEvent("media", Undefined, "outbound", TRUE, Base64Encode(LoudChunk))}
    \cup {TwilioEvent("start", sid, Undefined, FALSE, <<>>) :
            sid \in StreamSids \cup {Undefined}}
    \cup {TwilioEvent("media", Undefined, "inbound", TRUE, Base64Encode(c)) :
            c \in Chunks}

TwilioMessages ==
    {[valid |-> TRUE, data |-> d] : d \in TwilioEvents}
    \cup {[valid |-> FALSE, data |-> TwilioEvent("", Undefined, Undefined, FALSE, <<>>)]}

\* The speech-peer messages.
FunctionNames == {"getMedicationInfo", "lookupOrder", "toString"}
FunctionId(i) == "call-" \o ToString(i)
FunctionCalls(i) ==
    {[name |-> n, id |-> FunctionId(i), arguments |-> a] :
        n \in FunctionNames, a \in {ValidArguments, MalformedArguments}}
FunctionLists ==
    UNION {{f \in [1..n -> UNION {FunctionCalls(i) : i \in 1..n}] :
                \A i \in 1..n : f[i] \in FunctionCalls(i)} : n \in 0..MaxFunctions}
Outcomes == [1..MaxFunctions -> {"returns", "throws"}]

JsonObject(type, hasFunctions, functions) ==
    [parsed |-> "object", data |-> <<>>,
     message |-> [type |-> type, hasFunctions |-> hasFunctions, functions |-> functions]]
NotAnObject(parsed, data) ==
    [parsed |-> parsed, data |-> data,
     message |-> [type |-> Undefined, hasFunctions |-> FALSE, functions |-> <<>>]]

\* The bytes of the text "null".
NullText == <<110, 117, 108, 108>>
RawAudio == {<<250, 255, 3, 0>>, <<7, 1, 0, 128, 9>>}

DeepgramMessages ==
    {JsonObject("UserStartedSpeaking", FALSE, <<>>),
     JsonObject("ConversationText", FALSE, <<>>),
     JsonObject("FunctionCallRequest", FALSE, <<>>),
     NotAnObject("null", NullText),
     NotAnObject("scalar", <<49>>)}
    \cup {JsonObject("FunctionCallRequest", TRUE, f) : f \in FunctionLists}
    \cup {NotAnObject("throws", d) : d \in RawAudio}

\* ----------------------------------------------------------------- actions
Init ==
    /\ audioProcessor \in {newTwilioAudioProcessor(c) : c \in Configs}
    /\ wsState = "OPEN"
    /\ wsErrored = FALSE
    /\ dgState = "CONNECTING"
    /\ connectionTimeout = "armed"
    /\ dgSent = <<>>
    /\ wsSent = <<>>
    /\ appended = <<>>
    /\ extracted = <<>>
    /\ last = Ran("connection")
    /\ returned = NoCall
    /\ second = handleTwilioConnection(audioProcessor.config)

\* The timer set in the 'connection' handler fires: ws.close().
OnConnectionTimeout ==
    /\ connectionTimeout = "armed"
    /\ connectionTimeout' = "fired"
    /\ wsState' = close(wsState)
    /\ last' = Ran("timeout")
    /\ UNCHANGED <<returned, second>>
    /\ UNCHANGED <<audioProcessor, wsErrored, dgState, dgSent, wsSent, appended, extracted>>

\* deepgramConnection.on('open')
OnDeepgramOpen ==
    /\ dgState = "CONNECTING"
    /\ dgState' = "OPEN"
    /\ connectionTimeout' = clearTimeout(connectionTimeout)
    /\ dgSent' = send(dgSent, dgState', <<AgentConfig>>)
    /\ last' = Ran("deepgramOpen")
    /\ UNCHANGED <<returned, second>>
    /\ UNCHANGED <<audioProcessor, wsState, wsErrored, wsSent, appended, extracted>>

\* A faulty variant: a message of the speech peer also empties the frame
\* buffer.
OnDeepgramMessageFlushes(m, outcomes) ==
    /\ dgState = "OPEN"
    /\ LET out == onDeepgramMessage(m, audioProcessor.streamSid, outcomes)
       IN /\ wsSent' = send(wsSent, wsState, out.ws)
          /\ dgSent' = send(dgSent, dgState, out.dg)
    /\ Len(wsSent') <= MaxSent
    /\ Len(dgSent') <= MaxSent
    /\ audioProcessor' = [audioProcessor EXCEPT !.inBuffer = <<>>]
    /\ last' = Ran("deepgramMessage")
    /\ UNCHANGED <<returned, second>>
    /\ UNCHANGED <<wsState, wsErrored, dgState, connectionTimeout,
                   appended, extracted>>

\* deepgramConnection.on('message'), delivered while the socket is open.
OnDeepgramMessage(m, outcomes) ==
    /\ dgState = "OPEN"
    /\ LET out == onDeepgramMessage(m, audioProcessor.streamSid, outcomes)
       IN /\ wsSent' = send(wsSent, wsState, out.ws)
          /\ dgSent' = send(dgSent, dgState, out.dg)
    /\ Len(wsSent') <= MaxSent
    /\ Len(dgSent') <= MaxSent
    /\ last' = Ran("deepgramMessage")
    /\ UNCHANGED <<returned, second>>
    /\ UNCHANGED <<audioProcessor, wsState, wsErrored, dgState, connectionTimeout,
                   appended, extracted>>

\* deepgramConnection.on('error'): logged. The socket is closing by then.
OnDeepgramError ==
    /\ dgState # "CLOSED"
    /\ dgState' = "CLOSING"
    /\ last' = Ran("deepgramError")
    /\ UNCHANGED <<returned, second>>
    /\ UNCHANGED <<audioProcessor, wsState, wsErrored, connectionTimeout, dgSent, wsSent,
                   appended, extracted>>

\* A faulty variant: on the close of the speech peer a new connection to it
\* is opened.
OnDeepgramCloseReconnects ==
    /\ dgState # "CLOSED"
    /\ dgState' = "CONNECTING"
    /\ last' = Ran("deepgramClose")
    /\ UNCHANGED <<returned, second>>
    /\ UNCHANGED <<audioProcessor, wsState, wsErrored, connectionTimeout, dgSent, wsSent,
                   appended, extracted>>

\* A faulty variant: the close of the speech peer also closes the telephony
\* socket.
OnDeepgramCloseForcesTelephony ==
    /\ dgState # "CLOSED"
    /\ dgState' = "CLOSED"
    /\ wsState' = close(wsState)
    /\ last' = Ran("deepgramClose")
    /\ UNCHANGED <<returned, second>>
    /\ UNCHANGED <<audioProcessor, wsErrored, connectionTimeout, dgSent, wsSent,
                   appended, extracted>>

\* deepgramConnection.on('close'): logged.
OnDeepgramClose ==
    /\ dgState # "CLOSED"
    /\ dgState' = "CLOSED"
    /\ last' = Ran("deepgramClose")
    /\ UNCHANGED <<returned, second>>
    /\ UNCHANGED <<audioProcessor, wsState, wsErrored, connectionTimeout, dgSent, wsSent,
                   appended, extracted>>

\* The name under which the handling of a telephony message is recorded: the
\* event, with the track for media of a track other than inbound, and marked
\* for inbound media without a payload, whose decoding throws.
Handled(message) ==
    IF ~message.valid THEN "invalid"
    ELSE IF message.data.event = "media" /\ message.data.track # "inbound"
         THEN "media-" \o message.data.track
    ELSE IF message.data.event = "media" /\ ~message.data.hasPayload
         THEN "media-failed"
    ELSE message.data.event

\* ws.on('message'): processMessage inside a try whose catch logs.
OnTwilioMessage(message) ==
    /\ wsState # "CLOSED"
    /\ ~wsErrored
    /\ (message.valid /\ message.data.event # "stop")
            => audioProcessor.messageCount < MaxMessages
    /\ LET e == processMessage(audioProcessor, message, dgState)
       IN /\ audioProcessor' = e.p
          /\ dgSent' = dgSent \o [i \in 1..Len(e.sent) |-> Binary(e.sent[i])]
          /\ appended' = IF e.reset THEN <<>> ELSE appended \o e.pushed
          /\ extracted' = IF e.reset THEN <<>> ELSE extracted \o e.taken
    /\ Len(dgSent') <= MaxSent
    /\ last' = Ran(Handled(message))
    /\ UNCHANGED <<returned, second>>
    /\ UNCHANGED <<wsState, wsErrored, dgState, connectionTimeout, wsSent>>

\* ws.on('close'): deepgramConnection.close().
OnTwilioClose ==
    /\ wsState # "CLOSED"
    /\ wsState' = "CLOSED"
    /\ dgState' = close(dgState)
    /\ last' = Ran("close")
    /\ UNCHANGED <<returned, second>>
    /\ UNCHANGED <<audioProcessor, wsErrored, connectionTimeout, dgSent, wsSent,
                   appended, extracted>>

\* ws.on('error'): clearTimeout(connectionTimeout). The ws library has set
\* the socket to CLOSING before it emits 'error', and emits 'close' after.
OnTwilioError ==
    /\ wsState # "CLOSED"
    /\ ~wsErrored
    /\ wsErrored' = TRUE
    /\ wsState' = "CLOSING"
    /\ connectionTimeout' = clearTimeout(connectionTimeout)
    /\ last' = Ran("error")
    /\ UNCHANGED <<returned, second>>
    /\ UNCHANGED <<audioProcessor, dgState, dgSent, wsSent, appended, extracted>>

\* One step of the session, the peers' messages drawn from the given sets.
Step(twilioMessages, deepgramMessages) ==
    \/ OnConnectionTimeout
    \/ OnDeepgramOpen
    \/ \E m \in deepgramMessages, outcomes \in Outcomes : OnDeepgramMessage(m, outcomes)
    \/ OnDeepgramError
    \/ OnDeepgramClose
    \/ \E message \in twilioMessages : OnTwilioMessage(message)
    \/ OnTwilioClose
    \/ OnTwilioError

\* The session as a whole. The telephony peer sends connected, start, media
\* (inbound fragments of LongChunk), stop and texts that are not JSON; the
\* speech peer sends a function call request and a message of a kind that
\* is ignored.
SessionTwilioMessages ==
    {m \in TwilioMessages :
        \/ ~m.valid
        \/ m.data.event \in {"connected", "stop"}
        \/ m.data.event = "start" /\ m.data.streamSid = "MZa"
        \/ m.data.event = "media" /\ m.data.payload = Base64Encode(LongChunk)
                                  /\ m.data.track = "inbound"}

SessionDeepgramMessages ==
    {JsonObject("ConversationText", FALSE, <<>>),
     JsonObject("FunctionCallRequest", TRUE,
        <<[name |-> "lookupOrder", id |-> FunctionId(1), arguments |-> ValidArguments]>>)}

Next == Step(SessionTwilioMessages, SessionDeepgramMessages)

Spec == Init /\ [][Next]_vars

\* Once the telephony socket is closing (ws.close() was called, or the socket
\* failed), the ws library emits 'close'.
FairSpec == Spec /\ WF_vars(wsState = "CLOSING" /\ OnTwilioClose)

\* The relay alone: the telephony peer sends start, stop and inbound media
\* whose fragment is shorter than a frame (LoudChunk), longer than two
\* frames (LongChunk) or too short to pass the pre-filter (ShortChunk); the
\* speech peer opens and closes.
RelayChunks == {LoudChunk, LongChunk, ShortChunk}

RelayTwilioMessages ==
    {m \in TwilioMessages :
        /\ m.valid
        /\ \/ m.data.event = "stop"
           \/ m.data.event = "start" /\ m.data.streamSid = "MZa"
           \/ /\ m.data.event = "media"
              /\ m.data.track = "inbound"
              /\ m.data.hasPayload
              /\ m.data.payload \in {Base64Encode(c) : c \in RelayChunks}}

RelayNext ==
    \/ OnDeepgramOpen
    \/ OnDeepgramClose
    \/ \E message \in RelayTwilioMessages : OnTwilioMessage(message)

RelaySpec == Init /\ [][RelayNext]_vars

\* Function calls: the speech peer opens and sends function call requests.
FunctionCallRequests ==
    {JsonObject("FunctionCallRequest", TRUE, f) : f \in FunctionLists}
    \cup {JsonObject("FunctionCallRequest", FALSE, <<>>)}

CallNext ==
    \/ OnDeepgramOpen
    \/ \E m \in FunctionCallRequests, outcomes \in Outcomes : OnDeepgramMessage(m, outcomes)
    \/ OnDeepgramClose

CallSpec == Init /\ [][CallNext]_vars

\* The stream identity: the telephony peer sends start events with either
\* stream identity or none, and stop events, and may fail or close; the
\* speech peer opens, signals barge-in and sends raw audio.
StreamTwilioMessages ==
    {m \in TwilioMessages : m.valid /\ m.data.event \in {"start", "stop"}}

BargeIn == JsonObject("UserStartedSpeaking", FALSE, <<>>)

AudioMessage == NotAnObject("throws", <<250, 255, 3, 0>>)

StreamDeepgramMessages == {BargeIn, AudioMessage}

\* No function is called: the handlers' outcomes do not matter.
AllReturn == [i \in 1..MaxFunctions |-> "returns"]

StreamNext ==
    \/ OnDeepgramOpen
    \/ \E m \in StreamDeepgramMessages : OnDeepgramMessage(m, AllReturn)
    \/ \E message \in StreamTwilioMessages : OnTwilioMessage(message)
    \/ OnTwilioError
    \/ OnTwilioClose

StreamSpec == Init /\ [][StreamNext]_vars

\* The pre-filter: the telephony peer sends inbound media whose fragment is
\* loud, long, too short, all zero, of exactly the minimum length, or zero in
\* its first hundred bytes only, media of the outbound track and media without
\* a payload; the speech peer opens.
EdgeChunk == [i \in 1..20 |-> i]
LateChunk == [i \in 1..104 |-> IF i <= 100 THEN 0 ELSE i]
FilterChunks ==
    {LoudChunk, LongChunk, ShortChunk, SilentChunk, EdgeChunk, LateChunk}

InboundMedia(chunk) ==
    [valid |-> TRUE,
     data |-> TwilioEvent("media", Undefined, "inbound", TRUE, Base64Encode(chunk))]
OutboundMedia ==
    [valid |-> TRUE,
     data |-> TwilioEvent("media", Undefined, "outbound", TRUE, Base64Encode(LoudChunk))]

FilterTwilioMessages ==
    {InboundMedia(c) : c \in FilterChunks}
    \cup {OutboundMedia}
    \cup {m \in TwilioMessages :
            m.valid /\ m.data.event = "media" /\ ~m.data.hasPayload}

FilterNext ==
    \/ OnDeepgramOpen
    \/ \E message \in FilterTwilioMessages : OnTwilioMessage(message)

FilterSpec == Init /\ [][FilterNext]_vars

\* The frame buffer alone: fragments of one to three bytes are pushed on
\* inBuffer and extractChunk is called with sizes from one byte to one more
\* than the longest fragment.
Fragments == {<<1>>, <<2, 3>>, <<4, 5, 6>>}
FrameSizes == 1..4

\* this.inBuffer.push(audioChunk)
Push(audioChunk) ==
    /\ Len(appended) < MaxMessages
    /\ audioProcessor' = [audioProcessor EXCEPT !.inBuffer = Append(@, audioChunk)]
    /\ appended' = Append(appended, audioChunk)
    /\ last' = Ran("push")
    /\ returned' = [method |-> "push", input |-> audioChunk, output |-> <<>>]
    /\ UNCHANGED <<wsState, wsErrored, dgState, connectionTimeout, dgSent, wsSent,
                   extracted, second>>

\* this.extractChunk(size); output is the chunk returned, <<>> for null.
ExtractChunk(size) ==
    /\ LET x == extractChunk(audioProcessor.inBuffer, size)
       IN /\ audioProcessor' = [audioProcessor EXCEPT !.inBuffer = x.inBuffer]
          /\ extracted' = IF x.found THEN Append(extracted, x.chunk) ELSE extracted
          /\ returned' = [method |-> IF x.found THEN "extractChunk" ELSE "extractChunk-null",
                          input |-> size, output |-> x.chunk]
    /\ last' = Ran("extractChunk")
    /\ UNCHANGED <<wsState, wsErrored, dgState, connectionTimeout, dgSent, wsSent,
                   appended, second>>

ExtractNext ==
    \/ \E audioChunk \in Fragments : Push(audioChunk)
    \/ \E size \in FrameSizes : ExtractChunk(size)

ExtractSpec == Init /\ [][ExtractNext]_vars

\* The noise gate alone: preprocessAudio is called on frames of up to
\* MaxSamples samples, with and without an odd byte at the end, by a
\* processor whose threshold is undefined, 0.005 or 0.5. The samples lie at
\* and next to the floor, at and above half of a peak, and at the extremes.
GateConfigs ==
    {WiredConfig, ReferenceConfig, [ReferenceConfig EXCEPT !.noiseThreshold = <<1, 2>>]}
Samples == {0, 100, 101, 600, 700, -1200, -32768}
SampleFrames == UNION {[1..n -> Samples] : n \in 0..MaxSamples}
GateFrames == {BufferFrom(ss) \o odd : ss \in SampleFrames, odd \in {<<>>, <<7>>}}

GateInit ==
    /\ audioProcessor \in {newTwilioAudioProcessor(c) : c \in GateConfigs}
    /\ wsState = "OPEN"
    /\ wsErrored = FALSE
    /\ dgState = "CONNECTING"
    /\ connectionTimeout = "armed"
    /\ dgSent = <<>>
    /\ wsSent = <<>>
    /\ appended = <<>>
    /\ extracted = <<>>
    /\ last = Ran("connection")
    /\ returned = NoCall
    /\ second = handleTwilioConnection(audioProcessor.config)

\* this.preprocessAudio(audioBuffer)
PreprocessAudio(audioBuffer) ==
    /\ returned' = [method |-> "preprocessAudio", input |-> audioBuffer,
                    output |-> preprocessAudio(audioBuffer,
                                               audioProcessor.config.noiseThreshold)]
    /\ last' = Ran("preprocessAudio")
    /\ UNCHANGED <<audioProcessor, wsState, wsErrored, dgState, connectionTimeout,
                   dgSent, wsSent, appended, extracted, second>>

GateNext == \E audioBuffer \in GateFrames : PreprocessAudio(audioBuffer)

GateSpec == GateInit /\ [][GateNext]_vars

\* Silence: the telephony peer sends inbound media whose fragment is loud in
\* its first 48 bytes and zero after them, so that with a frame of 48 bytes
\* every other frame extracted is all zero; the speech peer opens; and
\* preprocessAudio is called on its own on all-zero frames of every length up
\* to MaxSamples samples and an odd byte, and on one loud frame.
FadingChunk == [i \in 1..100 |-> IF i <= 48 THEN (100 + 9 * i) % 256 ELSE 0]

SilentFrames == {[k \in 1..n |-> 0] : n \in 0..(2 * MaxSamples + 1)}

SilenceNext ==
    \/ OnDeepgramOpen
    \/ OnTwilioMessage(InboundMedia(FadingChunk))
    \/ \E audioBuffer \in SilentFrames \cup {BufferFrom(<<700>>)} :
            PreprocessAudio(audioBuffer)

SilenceSpec == GateInit /\ [][SilenceNext]_vars

\* Two connections at once. The handlers of the second connection are those
\* of the first, acting on what the second call of handleTwilioConnection
\* constructed.
StartMessage(sid) ==
    [valid |-> TRUE, data |-> TwilioEvent("start", sid, Undefined, FALSE, <<>>)]

StopMessage ==
    [valid |-> TRUE, data |-> TwilioEvent("stop", Undefined, Undefined, FALSE, <<>>)]

\* The processor behind a reference.
Processor(ref) == IF ref = "first" THEN audioProcessor ELSE second.audioProcessor

\* deepgramConnection.on('open') of the second connection.
OnSecondDeepgramOpen ==
    /\ second.dgState = "CONNECTING"
    /\ second' = [second EXCEPT !.dgState = "OPEN",
                                !.dgSent = send(@, "OPEN", <<AgentConfig>>)]
    /\ UNCHANGED <<audioProcessor, wsState, wsErrored, dgState, connectionTimeout,
                   dgSent, wsSent, appended, extracted, last, returned>>

\* deepgramConnection.on('message') of the second connection.
OnSecondDeepgramMessage(m, outcomes) ==
    /\ second.dgState = "OPEN"
    /\ LET sid == Processor(processorOf("second")).streamSid
           out == onDeepgramMessage(m, sid, outcomes)
       IN second' = [second EXCEPT !.wsSent = send(@, second.wsState, out.ws),
                                   !.dgSent = send(@, second.dgState, out.dg)]
    /\ Len(second'.wsSent) <= MaxSent
    /\ Len(second'.dgSent) <= MaxSent
    /\ UNCHANGED <<audioProcessor, wsState, wsErrored, dgState, connectionTimeout,
                   dgSent, wsSent, appended, extracted, last, returned>>

\* ws.on('message') of the second connection.
OnSecondTwilioMessage(message) ==
    LET ref == processorOf("second")
        e == processMessage(Processor(ref), message, second.dgState)
    IN /\ second.wsState # "CLOSED"
       /\ (message.valid /\ message.data.event # "stop")
            => Processor(ref).messageCount < MaxMessages
       /\ audioProcessor' = IF ref = "first" THEN e.p ELSE audioProcessor
       /\ second' = [second EXCEPT
                        !.audioProcessor = IF ref = "second" THEN e.p ELSE @,
                        !.dgSent = @ \o [i \in 1..Len(e.sent) |-> Binary(e.sent[i])]]
       /\ Len(second'.dgSent) <= MaxSent
       /\ UNCHANGED <<wsState, wsErrored, dgState, connectionTimeout, dgSent, wsSent,
                      appended, extracted, last, returned>>

\* ws.on('close') of the second connection.
OnSecondTwilioClose ==
    /\ second.wsState # "CLOSED"
    /\ second' = [second EXCEPT !.wsState = "CLOSED", !.dgState = close(@)]
    /\ UNCHANGED <<audioProcessor, wsState, wsErrored, dgState, connectionTimeout,
                   dgSent, wsSent, appended, extracted, last, returned>>

\* Both connections run the documented configuration. The first telephony
\* peer starts stream MZa, the second MZb, and both send fragments of half a
\* frame; both speech peers open and send raw audio; the second telephony
\* peer may close.
PairInit ==
    /\ Init
    /\ audioProcessor.config = ReferenceConfig

FirstTwilioMessages == {StartMessage("MZa"), InboundMedia(LoudChunk)}
SecondTwilioMessages == {StartMessage("MZb"), InboundMedia(LoudChunk)}

PairNext ==
    \/ OnDeepgramOpen
    \/ OnDeepgramMessage(AudioMessage, AllReturn)
    \/ \E message \in FirstTwilioMessages : OnTwilioMessage(message)
    \/ OnSecondDeepgramOpen
    \/ OnSecondDeepgramMessage(AudioMessage, AllReturn)
    \/ \E message \in SecondTwilioMessages : OnSecondTwilioMessage(message)
    \/ OnSecondTwilioClose

PairSpec == PairInit /\ [][PairNext]_vars

\* Other JSON: the telephony peer starts and stops a stream and may close;
\* the speech peer opens and sends texts that parse as JSON and are neither
\* a barge-in nor a function call request: an object of another type, the
\* value null and a number.
OtherJson ==
    {JsonObject("ConversationText", FALSE, <<>>),
     NotAnObject("null", NullText),
     NotAnObject("scalar", <<49>>)}

KindTwilioMessages == {StartMessage("MZa"), StopMessage}

KindNext ==
    \/ OnDeepgramOpen
    \/ \E m \in OtherJson : OnDeepgramMessage(m, AllReturn)
    \/ OnDeepgramClose
    \/ \E message \in KindTwilioMessages : OnTwilioMessage(message)
    \/ OnTwilioClose

KindSpec == Init /\ [][KindNext]_vars

\* Restart: the telephony peer starts streams MZa and MZb, stops them and
\* sends inbound media whose fragment is four bytes longer than a frame of
\* 48 bytes, so that bytes stay buffered after every frame; the speech peer
\* opens and sends raw audio.
RestartChunk == [i \in 1..52 |-> (100 + 9 * i) % 256]

RestartTwilioMessages ==
    {StartMessage(sid) : sid \in StreamSids}
    \cup {StopMessage, InboundMedia(RestartChunk)}

RestartNext ==
    \/ OnDeepgramOpen
    \/ OnDeepgramMessage(AudioMessage, AllReturn)
    \/ \E message \in RestartTwilioMessages : OnTwilioMessage(message)

RestartSpec == Init /\ [][RestartNext]_vars

\* The session as wired: the processor has the configuration that
\* handleTwilioConnection gives it. The telephony peer starts and stops a
\* stream, sends inbound media whose fragment is loud and as long as a
\* whole frame of 3200 bytes, or loud and short, and may close; the speech
\* peer opens and closes.
WiredInit ==
    /\ Init
    /\ audioProcessor.config = WiredConfig

FullChunk == [i \in 1..WiredConfig.bufferSize |-> (100 + 9 * i) % 256]

WiredTwilioMessages ==
    {StartMessage(sid) : sid \in StreamSids}
    \cup {StopMessage, InboundMedia(FullChunk), InboundMedia(LoudChunk)}

WiredNext ==
    \/ OnDeepgramOpen
    \/ OnDeepgramClose
    \/ \E message \in WiredTwilioMessages : OnTwilioMessage(message)
    \/ OnTwilioClose

WiredSpec == WiredInit /\ [][WiredNext]_vars

\* The extraction loop: processors with frames of 1, 7 and 48 bytes; the
\* telephony peer sends inbound media whose fragment has 24 bytes or 52; the
\* speech peer opens.
LoopFrameSizes == {1, 7, 48}

LoopInit ==
    /\ audioProcessor \in
            {newTwilioAudioProcessor([ReferenceConfig EXCEPT !.bufferSize = size]) :
                size \in LoopFrameSizes}
    /\ wsState = "OPEN"
    /\ wsErrored = FALSE
    /\ dgState = "CONNECTING"
    /\ connectionTimeout = "armed"
    /\ dgSent = <<>>
    /\ wsSent = <<>>
    /\ appended = <<>>
    /\ extracted = <<>>
    /\ last = Ran("connection")
    /\ returned = NoCall
    /\ second = handleTwilioConnection(audioProcessor.config)

LoopTwilioMessages == {InboundMedia(LoudChunk), InboundMedia(RestartChunk)}

LoopNext ==
    \/ OnDeepgramOpen
    \/ \E message \in LoopTwilioMessages : OnTwilioMessage(message)

LoopSpec == LoopInit /\ [][LoopNext]_vars

\* The speech peer's messages against the processor: the telephony peer
\* starts a stream and sends inbound media of half a frame; the speech peer
\* opens and sends raw audio, a barge-in, a function call request, an object
\* of another type and the value null.
ReaderDeepgramMessages ==
    {AudioMessage, BargeIn,
     JsonObject("ConversationText", FALSE, <<>>),
     NotAnObject("null", NullText),
     JsonObject("FunctionCallRequest", TRUE,
        <<[name |-> "getMedicationInfo", id |-> FunctionId(1),
           arguments |-> ValidArguments]>>)}

ReaderTwilioMessages == {StartMessage("MZa"), InboundMedia(LoudChunk)}

ReaderNext ==
    \/ OnDeepgramOpen
    \/ \E m \in ReaderDeepgramMessages : OnDeepgramMessage(m, AllReturn)
    \/ \E message \in ReaderTwilioMessages : OnTwilioMessage(message)

ReaderSpec == PairInit /\ [][ReaderNext]_vars

\* -------------------------------------------------------------- properties
\* The binary (audio) messages of a log of messages sent to the speech peer.
Audio(log) == SelectSeq(log, LAMBDA msg : msg.type = "binary")

\* C1: the frames extracted since the last reset, in order, followed by the
\* bytes still pending, are exactly the fragments appended since then, in
\* order; every extracted frame has bufferSize bytes and fewer than
\* bufferSize bytes stay pending once a telephony message has been handled.
FrameBufferConserves ==
    /\ Concat(extracted) \o Concat(audioProcessor.inBuffer) = Concat(appended)
    /\ \A i \in 1..Len(extracted) : Len(extracted[i]) = audioProcessor.config.bufferSize
    /\ getBufferSize(audioProcessor.inBuffer) < audioProcessor.config.bufferSize

\* Several fragments were appended, more than one frame was extracted and an
\* excess was put back.
FrameBufferConservesWitness ==
    /\ Len(appended) >= 2
    /\ Len(extracted) >= 2
    /\ getBufferSize(audioProcessor.inBuffer) > 0

\* C2: while the session is not streaming (streamSid is null: before the
\* first start, or after a stop with no later start) no step appends to the
\* frame buffer or sends audio to the speech peer.
MediaIgnoredUnlessStreaming ==
    [][audioProcessor.streamSid = Null
        => /\ Len(appended') <= Len(appended)
           /\ Audio(dgSent') = Audio(dgSent)]_vars

\* C3: a stop event leaves streamSid null and the frame buffer empty,
\* whatever the state before it.
StopResets ==
    [][\A message \in TwilioMessages :
        (message.valid /\ message.data.event = "stop" /\ OnTwilioMessage(message))
            => /\ audioProcessor'.streamSid = Null
               /\ audioProcessor'.inBuffer = <<>>
               /\ getBufferSize(audioProcessor'.inBuffer) = 0]_vars

\* A stop event has just been handled in a state with a stream identity and
\* buffered bytes.
StopResetsWitness ==
    /\ last.op = "stop"
    /\ last.hadStream
    /\ last.hadBytes
    /\ audioProcessor.streamSid = Null
    /\ audioProcessor.inBuffer = <<>>

\* The messages a step sent to the speech peer.
SentToDeepgram == SubSeq(dgSent', Len(dgSent) + 1, Len(dgSent'))

\* The responses among msgs that carry the id and the name of entry.
ResponsesTo(entry, msgs) ==
    {j \in 1..Len(msgs) :
        /\ msgs[j].type = "FunctionCallResponse"
        /\ msgs[j].id = entry.id
        /\ msgs[j].name = entry.name}

\* C4: a function call request is answered, for every one of its entries
\* (registered, unregistered or throwing, the decoding of its arguments
\* included), by exactly one FunctionCallResponse with the entry's id and
\* name.
EveryEntryAnswered ==
    [][\A m \in FunctionCallRequests, outcomes \in Outcomes :
        OnDeepgramMessage(m, outcomes)
            => \A i \in 1..Len(m.message.functions) :
                Cardinality(ResponsesTo(m.message.functions[i], SentToDeepgram)) = 1]_vars

\* C5: an entry whose name is not in the dispatch table is answered by
\* exactly one FunctionCallResponse with its id and name, whose content is
\* the error object 'Unknown function: <name>'.
UnknownFunctionAnswered ==
    [][\A m \in FunctionCallRequests, outcomes \in Outcomes :
        OnDeepgramMessage(m, outcomes)
            => \A i \in 1..Len(m.message.functions) :
                LET entry == m.message.functions[i]
                    answers == ResponsesTo(entry, SentToDeepgram)
                IN entry.name \notin FUNCTION_MAP
                    => /\ Cardinality(answers) = 1
                       /\ \A j \in answers :
                            SentToDeepgram[j].content
                                = UnknownFunctionContent(entry.name)]_vars

\* C6: a request with n entries yields n responses, one for every entry
\* after an entry that throws included.
ExceptionsContainedPerEntry ==
    [][\A m \in FunctionCallRequests, outcomes \in Outcomes :
        OnDeepgramMessage(m, outcomes)
            => /\ Len(SentToDeepgram) = Len(m.message.functions)
               /\ \A i \in 2..Len(m.message.functions) :
                    ResponsesTo(m.message.functions[i], SentToDeepgram) # {}]_vars

\* The places of the agent configuration in the log of the speech peer.
ConfigSent == {i \in 1..Len(dgSent) : dgSent[i] = AgentConfig}

\* C7: the first message sent to the speech peer is the agent configuration,
\* it is sent exactly once, when the speech peer opens, and no audio frame
\* is sent before it.
AgentConfigFirst ==
    /\ dgSent # <<>> => ConfigSent = {1}
    /\ dgState = "CONNECTING" => dgSent = <<>>
    /\ dgState = "OPEN" => dgSent # <<>>

\* The speech peer opened and took the configuration, then two frames of
\* audio.
AgentConfigFirstWitness ==
    /\ Len(dgSent) >= 3
    /\ dgSent[1] = AgentConfig
    /\ \A i \in 2..Len(dgSent) : dgSent[i].type = "binary"

\* C8: the timer fires only while the speech peer has not opened, and the
\* telephony socket is not open from then on; once the speech peer has
\* opened the timer is never armed, so it never closes the telephony socket.
TimeoutClosesUnlessOpened ==
    [][/\ connectionTimeout' = "fired" => wsState' # "OPEN"
       /\ (connectionTimeout # "fired" /\ connectionTimeout' = "fired")
            => dgState # "OPEN" /\ dgSent = <<>>
       /\ dgSent' # <<>> => connectionTimeout' # "armed"
       /\ dgSent # <<>> => connectionTimeout' = connectionTimeout]_vars

\* The timer has just fired on an open telephony socket, the speech peer
\* still connecting.
TimeoutClosesUnlessOpenedWitness ==
    /\ last.op = "timeout"
    /\ connectionTimeout = "fired"
    /\ wsState = "CLOSING"
    /\ dgState = "CONNECTING"

SpeechPeerClosed == dgState \in {"CLOSING", "CLOSED"}

\* C9: once the telephony socket has closed the speech peer is closed, and
\* an error of the telephony socket leads to the speech peer being closed.
TelephonyEndClosesSpeechPeer ==
    /\ [](wsState = "CLOSED" => SpeechPeerClosed)
    /\ (wsErrored ~> SpeechPeerClosed)

\* The telephony socket reported an error and closed while the speech peer
\* was open, and the speech peer is closing.
TelephonyEndClosesSpeechPeerWitness ==
    /\ wsErrored
    /\ wsState = "CLOSED"
    /\ last.op = "close"
    /\ dgSent # <<>>
    /\ dgState = "CLOSING"

\* C10: the close and the error of the speech peer leave the telephony
\* socket and the timer as they are; only the timer closes the telephony
\* socket; and while the telephony socket is open a stop event is handled
\* whatever the state of the speech peer.
SpeechPeerEndLeavesTelephony ==
    /\ [][(OnDeepgramClose \/ OnDeepgramError)
            => wsState' = wsState /\ connectionTimeout' = connectionTimeout]_vars
    /\ [][(wsState = "OPEN" /\ wsState' # "OPEN")
            => OnConnectionTimeout \/ OnTwilioClose \/ OnTwilioError]_vars
    /\ []((SpeechPeerClosed /\ wsState = "OPEN")
            => ENABLED OnTwilioMessage(StopMessage))

\* The speech peer closed after it had opened, the telephony socket stayed
\* open and a stop event was handled, resetting a stream.
SpeechPeerEndLeavesTelephonyWitness ==
    /\ dgState = "CLOSED"
    /\ dgSent # <<>>
    /\ wsState = "OPEN"
    /\ last.op = "stop"
    /\ last.hadStream
    /\ audioProcessor.streamSid = Null

\* C11: the timer does not fire once the speech peer has opened or the
\* telephony socket has closed, and a cleared timer stays cleared.
TimerCancelledOnEnd ==
    [][/\ (connectionTimeout # "fired" /\ connectionTimeout' = "fired")
            => dgSent = <<>> /\ wsState # "CLOSED"
       /\ connectionTimeout = "cleared" => connectionTimeout' = "cleared"]_vars

\* C12: a start event that carries no streamSid leaves the stream identity
\* as it was: one set by an earlier start is kept, and none stays none.
StartWithoutSidKeepsStream ==
    [][\A message \in StreamTwilioMessages :
        (/\ message.data.event = "start"
         /\ message.data.streamSid = Undefined
         /\ OnTwilioMessage(message))
            => IF Truthy(audioProcessor.streamSid)
               THEN audioProcessor'.streamSid = audioProcessor.streamSid
               ELSE ~Truthy(audioProcessor'.streamSid)]_vars

\* The telephony log only grows at its end.
TelephonyLogGrows == Len(wsSent) <= Len(wsSent') /\ SubSeq(wsSent', 1, Len(wsSent)) = wsSent

\* C13: a barge-in received while the stream identity is s and the telephony
\* socket is open appends exactly one clear message for s to what is sent to
\* the telephony peer; nothing sent is ever reordered, so the clear precedes
\* every media message made from audio that arrives later.
BargeInClearsFirst ==
    [][/\ TelephonyLogGrows
       /\ (/\ Truthy(audioProcessor.streamSid)
           /\ wsState = "OPEN"
           /\ OnDeepgramMessage(BargeIn, AllReturn))
            => wsSent' = Append(wsSent, ClearMessage(audioProcessor.streamSid))]_vars

\* A clear message for the stream was sent, and right after it a media
\* message made from later audio.
BargeInClearsFirstWitness ==
    \E i \in 1..(Len(wsSent) - 1) :
        /\ wsSent[i] = ClearMessage(audioProcessor.streamSid)
        /\ wsSent[i + 1].event = "media"

\* C14: speech-peer data that is not JSON is sent to the open telephony
\* socket as exactly one media event with the current streamSid and the data
\* in base64 when streamSid is set, and nothing is sent when it is unset;
\* streamSid is what the last start event carried, null after a stop, and no
\* other step changes it.
RawAudioFollowsStream ==
    [][/\ OnDeepgramMessage(AudioMessage, AllReturn)
            => IF Truthy(audioProcessor.streamSid) /\ wsState = "OPEN"
               THEN /\ Len(wsSent') = Len(wsSent) + 1
                    /\ TelephonyLogGrows
                    /\ wsSent'[Len(wsSent')].event = "media"
                    /\ wsSent'[Len(wsSent')].streamSid = audioProcessor.streamSid
                    /\ Base64Decode(wsSent'[Len(wsSent')].payload) = AudioMessage.data
               ELSE wsSent' = wsSent
       /\ \A message \in StreamTwilioMessages :
            OnTwilioMessage(message)
                => audioProcessor'.streamSid =
                        IF message.data.event = "start" THEN message.data.streamSid
                        ELSE Null
       /\ audioProcessor'.streamSid # audioProcessor.streamSid
            => \E message \in StreamTwilioMessages : OnTwilioMessage(message)]_vars

\* Audio was forwarded under two stream identities in turn and then dropped
\* after a stop.
RawAudioFollowsStreamWitness ==
    /\ Len(wsSent) >= 2
    /\ \E i, j \in 1..Len(wsSent) :
        /\ i < j
        /\ wsSent[i].event = "media"
        /\ wsSent[j].event = "media"
        /\ wsSent[i].streamSid # wsSent[j].streamSid
    /\ audioProcessor.streamSid = Null
    /\ last.op = "deepgramMessage"

\* The frames a step extracted and the audio it sent to the speech peer.
NewlyExtracted ==
    IF Len(extracted') >= Len(extracted)
    THEN SubSeq(extracted', Len(extracted) + 1, Len(extracted'))
    ELSE <<>>
NewlySent == Audio(SubSeq(dgSent', Len(dgSent) + 1, Len(dgSent')))

\* C15: a media event handled while the speech peer is not open takes its
\* complete frames out of the buffer and sends none of them; and the audio
\* any step sends comes from the frames that very step extracted, so a frame
\* dropped earlier is never sent later.
UnreadyFramesDropped ==
    [][\A message \in RelayTwilioMessages :
        OnTwilioMessage(message)
            => /\ ~isDeepgramReady(dgState)
                    => /\ NewlySent = <<>>
                       /\ getBufferSize(audioProcessor'.inBuffer)
                            < audioProcessor.config.bufferSize
               /\ Len(NewlySent) <= Len(NewlyExtracted)
               /\ \A i \in 1..Len(NewlySent) :
                    \E j \in 1..Len(NewlyExtracted) :
                        NewlySent[i].data =
                            preprocessAudio(NewlyExtracted[j],
                                            audioProcessor.config.noiseThreshold)]_vars

\* Frames that pass the noise gate were extracted while the speech peer was
\* connecting; it has opened since and was sent only the frame extracted
\* after that.
UnreadyFramesDroppedWitness ==
    /\ dgState = "OPEN"
    /\ Len(extracted) = 3
    /\ Len(Audio(dgSent)) = 1
    /\ \A i \in 1..Len(extracted) :
        preprocessAudio(extracted[i], audioProcessor.config.noiseThreshold) # <<>>
    /\ Audio(dgSent)[1].data =
            preprocessAudio(extracted[3], audioProcessor.config.noiseThreshold)

\* C16: a media event of a track other than inbound changes neither the
\* frame buffer nor what was sent to the speech peer.
OutboundTrackIgnored ==
    [][OnTwilioMessage(OutboundMedia)
        => /\ audioProcessor'.inBuffer = audioProcessor.inBuffer
           /\ appended' = appended
           /\ extracted' = extracted
           /\ dgSent' = dgSent]_vars

\* An outbound media event has just been handled with the speech peer open
\* and bytes pending in the frame buffer.
OutboundTrackIgnoredWitness ==
    /\ last.op = "media-outbound"
    /\ dgState = "OPEN"
    /\ getBufferSize(audioProcessor.inBuffer) > 0
    /\ extracted # <<>>

\* C18: an inbound fragment is appended to the frame buffer if and only if
\* its length is at least the configured minimum and one of its first
\* min(100, length) bytes is not zero; otherwise the buffer stays as it is.
PreFilterAdmits ==
    [][\A chunk \in FilterChunks :
        OnTwilioMessage(InboundMedia(chunk))
            => IF /\ audioProcessor.config.minChunkSize # NoNumber
                  /\ Len(chunk) >= audioProcessor.config.minChunkSize[1]
                  /\ \E i \in 1..Min(100, Len(chunk)) : chunk[i] # 0
               THEN appended' = Append(appended, chunk)
               ELSE /\ appended' = appended
                    /\ audioProcessor'.inBuffer = audioProcessor.inBuffer]_vars

\* C17: extractChunk(size) on a buffer of at least size bytes returns the
\* first size buffered bytes, leaves the other bytes in their order, the
\* excess of the last fragment it consumed as one fragment at the front and
\* the fragments behind it as they were; on a buffer of fewer bytes it
\* returns null and leaves the buffer as it is.
ExtractFrameExact ==
    [][\A size \in FrameSizes :
        ExtractChunk(size)
            => LET buf == audioProcessor.inBuffer
                   all == Concat(buf)
                   after == audioProcessor'.inBuffer
               IN IF Len(all) >= size
                  THEN /\ returned'.method = "extractChunk"
                       /\ returned'.output = SubSeq(all, 1, size)
                       /\ Len(returned'.output) = size
                       /\ getBufferSize(after) = getBufferSize(buf) - size
                       /\ Concat(after) = SubSeq(all, size + 1, Len(all))
                       /\ \E k \in 1..Len(buf) :
                            LET upTo == getBufferSize(SubSeq(buf, 1, k))
                                excess == upTo - size
                            IN /\ upTo >= size
                               /\ upTo - Len(buf[k]) < size
                               /\ after =
                                    (IF excess > 0
                                     THEN <<SubSeq(buf[k], Len(buf[k]) - excess + 1,
                                                   Len(buf[k]))>>
                                     ELSE <<>>)
                                    \o SubSeq(buf, k + 1, Len(buf))
                  ELSE /\ returned'.method = "extractChunk-null"
                       /\ after = buf]_vars

\* A frame that spans two fragments was returned and the excess of the
\* second was put back in front of a third.
ExtractFrameExactWitness ==
    /\ returned.method = "extractChunk"
    /\ returned.output = <<2, 3, 4>>
    /\ audioProcessor.inBuffer = <<<<5, 6>>, <<1>>>>

\* C19: the output of the noise gate is empty or as long as its input, for
\* frames of even and of odd length.
GateKeepsLength ==
    returned.method = "preprocessAudio"
        => Len(returned.output) \in {0, Len(returned.input)}

\* The samples of ss that the gate of the given ratio lets pass: those whose
\* absolute value is above both the ratio of the frame's peak and the floor.
Passes(ss, i, ratio) ==
    /\ \A j \in 1..Len(ss) : Abs(ss[i]) * ratio[2] > Abs(ss[j]) * ratio[1]
    /\ Abs(ss[i]) > MinGateThreshold

\* C20: for a frame of 16-bit samples and a configured ratio, the output of
\* the noise gate is empty if no sample is above the threshold
\* max(peak * ratio, floor), and otherwise the frame with every sample above
\* the threshold kept and every other sample zero; this holds of every call,
\* whatever frames were processed before it.
GateKeepsLoudSamples ==
    \A ss \in SampleFrames :
        (/\ returned.method = "preprocessAudio"
         /\ returned.input = BufferFrom(ss)
         /\ audioProcessor.config.noiseThreshold # NoNumber)
            => LET ratio == audioProcessor.config.noiseThreshold
                   gated == [i \in 1..Len(ss) |->
                                IF Passes(ss, i, ratio) THEN ss[i] ELSE 0]
               IN returned.output =
                    IF \E i \in 1..Len(ss) : Passes(ss, i, ratio)
                    THEN BufferFrom(gated) ELSE <<>>

\* With the ratio 0.5 the gate was given a peak of 1200 and a sample at half
\* of it: it kept the peak and silenced the other.
GateKeepsLoudSamplesWitness ==
    /\ returned.method = "preprocessAudio"
    /\ audioProcessor.config.noiseThreshold = <<1, 2>>
    /\ returned.input = BufferFrom(<<-1200, 600>>)
    /\ returned.output = BufferFrom(<<-1200, 0>>)

\* Every sample of the frame is zero.
AllZero(frame) == \A i \in 1..Len(Int16Array(frame)) : Int16Array(frame)[i] = 0

\* C21: the noise gate returns the empty buffer for a frame whose samples are
\* all zero, whatever the configured ratio; and a step sends the speech peer
\* no more audio than it extracted frames that are not all zero, and none
\* that is empty or all zero.
SilenceGated ==
    /\ []((returned.method = "preprocessAudio" /\ AllZero(returned.input))
            => returned.output = <<>>)
    /\ [][/\ Len(NewlySent)
                <= Cardinality({j \in 1..Len(NewlyExtracted) :
                                    ~AllZero(NewlyExtracted[j])})
           /\ \A i \in 1..Len(NewlySent) :
                NewlySent[i].data # <<>> /\ ~AllZero(NewlySent[i].data)]_vars

\* With a ratio configured and the speech peer open, a loud frame and an
\* all-zero frame were extracted and only the loud one was sent; the gate,
\* called on an all-zero frame of odd length, returned the empty buffer.
SilenceGatedWitness ==
    /\ audioProcessor.config.noiseThreshold # NoNumber
    /\ dgState = "OPEN"
    /\ Len(extracted) = 2
    /\ ~AllZero(extracted[1])
    /\ AllZero(extracted[2])
    /\ Len(Audio(dgSent)) = 1
    /\ returned.method = "preprocessAudio"
    /\ Len(returned.input) = 3
    /\ AllZero(returned.input)
    /\ returned.output = <<>>

\* C22: a frame of odd length, which does not divide into 16-bit samples,
\* comes out of the noise gate as it went in, byte for byte.
OddFrameReturnedUnmodified ==
    (returned.method = "preprocessAudio" /\ Len(returned.input) % 2 = 1)
        => returned.output = returned.input

\* What the first connection's handlers close over.
First == <<audioProcessor, wsState, dgState, dgSent, wsSent>>

\* C23: a handler of the second connection leaves the first connection's
\* streamSid, frame buffer, messageCount and in-flight flag, its sockets and
\* what was sent on them as they are, and a handler of the first connection
\* leaves all of that of the second as it is; so every step changes at most
\* one of the two.
SessionsIsolated ==
    [][/\ (\/ OnSecondDeepgramOpen
           \/ OnSecondDeepgramMessage(AudioMessage, AllReturn)
           \/ \E message \in SecondTwilioMessages : OnSecondTwilioMessage(message)
           \/ OnSecondTwilioClose)
            => /\ audioProcessor'.streamSid = audioProcessor.streamSid
               /\ audioProcessor'.inBuffer = audioProcessor.inBuffer
               /\ audioProcessor'.messageCount = audioProcessor.messageCount
               /\ audioProcessor'.isProcessingAudio = audioProcessor.isProcessingAudio
               /\ wsSent' = wsSent
               /\ dgSent' = dgSent
       /\ (\/ OnDeepgramOpen
           \/ OnDeepgramMessage(AudioMessage, AllReturn)
           \/ \E message \in FirstTwilioMessages : OnTwilioMessage(message))
            => second' = second
       /\ First' = First \/ second' = second]_vars

\* Both connections have a stream of their own and audio forwarded to their
\* own telephony sockets; the first has sent the frame made of its two
\* fragments to its speech peer and the second holds its one fragment.
SessionsIsolatedWitness ==
    /\ audioProcessor.streamSid = "MZa"
    /\ second.audioProcessor.streamSid = "MZb"
    /\ audioProcessor.inBuffer = <<>>
    /\ second.audioProcessor.inBuffer = <<LoudChunk>>
    /\ audioProcessor.messageCount = 3
    /\ second.audioProcessor.messageCount = 2
    /\ Len(Audio(dgSent)) = 1
    /\ second.dgSent = <<AgentConfig>>
    /\ wsSent = <<MediaMessage("MZa", AudioMessage.data)>>
    /\ second.wsSent = <<MediaMessage("MZb", AudioMessage.data)>>

\* C24: between events the in-flight flag is false, whether the last media
\* event ended normally or by an error; and a media event handled by a
\* processor whose flag is set would leave the frame buffer as it is, append
\* and extract nothing and send nothing.
InFlightFlagGuards ==
    /\ ~audioProcessor.isProcessingAudio
    /\ \A message \in FilterTwilioMessages :
        LET busy == [audioProcessor EXCEPT !.isProcessingAudio = TRUE]
            e == handleMediaEvent(busy, message.data, dgState)
        IN /\ e.p.inBuffer = audioProcessor.inBuffer
           /\ e.pushed = <<>>
           /\ e.taken = <<>>
           /\ e.sent = <<>>

\* A media event without a payload has just failed, after media events that
\* were appended and extracted with the speech peer open, and the flag is
\* false.
InFlightFlagGuardsWitness ==
    /\ last.op = "media-failed"
    /\ ~audioProcessor.isProcessingAudio
    /\ dgState = "OPEN"
    /\ extracted # <<>>
    /\ getBufferSize(audioProcessor.inBuffer) > 0

\* C25: every recognised telephony event leaves messageCount one greater
\* than before it, so the count never decreases.
MessageCountMonotonic ==
    [][\A message \in RelayTwilioMessages :
        OnTwilioMessage(message)
            => audioProcessor'.messageCount = audioProcessor.messageCount + 1]_vars

\* A telephony message that is not JSON.
InvalidMessage ==
    [valid |-> FALSE, data |-> TwilioEvent("", Undefined, Undefined, FALSE, <<>>)]

\* C26: the handling of a telephony message that is not JSON leaves the
\* processor (streamSid, frame buffer, messageCount), both sockets, the
\* timer and everything sent to either peer as they were, and the next
\* telephony message is handled.
MalformedMessageIgnored ==
    /\ [][OnTwilioMessage(InvalidMessage)
            => /\ audioProcessor' = audioProcessor
               /\ wsState' = wsState
               /\ dgState' = dgState
               /\ connectionTimeout' = connectionTimeout
               /\ dgSent' = dgSent
               /\ wsSent' = wsSent]_vars
    /\ [](last.op = "invalid" => ENABLED OnTwilioMessage(StopMessage))

\* A message that is not JSON has just been handled on a session with both
\* sockets open, a stream identity and bytes in the frame buffer.
MalformedMessageIgnoredWitness ==
    /\ last.op = "invalid"
    /\ wsState = "OPEN"
    /\ dgState = "OPEN"
    /\ audioProcessor.streamSid = "MZa"
    /\ audioProcessor.messageCount = 2
    /\ getBufferSize(audioProcessor.inBuffer) > 0

\* C27: a speech-peer message that parses as JSON and is neither a barge-in
\* nor a function call request sends nothing to the telephony peer and
\* nothing to the speech peer.
OtherJsonIgnored ==
    [][\A m \in OtherJson :
        OnDeepgramMessage(m, AllReturn)
            => wsSent' = wsSent /\ dgSent' = dgSent]_vars

\* C28: the speech-peer socket of a session never returns to connecting or
\* open once it has left that state, and once it is closing or closed
\* nothing more is sent on it.
OneSpeechPeerConnection ==
    [][/\ dgState' = "CONNECTING" => dgState = "CONNECTING"
       /\ dgState' = "OPEN" => dgState \in {"CONNECTING", "OPEN"}
       /\ SpeechPeerClosed => SpeechPeerClosed' /\ dgSent' = dgSent]_vars

\* The speech peer took two frames and closed; a media event handled after
\* that extracted two more frames, which were not sent.
OneSpeechPeerConnectionWitness ==
    /\ dgState = "CLOSED"
    /\ wsState = "OPEN"
    /\ last.op = "media"
    /\ Len(extracted) = 4
    /\ Len(Audio(dgSent)) = 2

\* C29: a start event sets the stream identity it carries, also after a
\* stop; raw audio of the speech peer is then forwarded with that identity;
\* and the frames extracted since the last stop are made, in order, of the
\* bytes appended since that stop, the audio a step sends being the gate's
\* output for frames extracted in that step.
RestartStartsClean ==
    /\ [](/\ Len(Concat(extracted)) <= Len(Concat(appended))
          /\ Concat(extracted)
                = SubSeq(Concat(appended), 1, Len(Concat(extracted))))
    /\ [][/\ \A sid \in StreamSids :
               OnTwilioMessage(StartMessage(sid)) => audioProcessor'.streamSid = sid
          /\ (/\ OnDeepgramMessage(AudioMessage, AllReturn)
              /\ Truthy(audioProcessor.streamSid)
              /\ wsState = "OPEN")
               => wsSent' = Append(wsSent, MediaMessage(audioProcessor.streamSid,
                                                        AudioMessage.data))
          /\ \A i \in 1..Len(NewlySent) :
               \E j \in 1..Len(NewlyExtracted) :
                   NewlySent[i].data =
                       preprocessAudio(NewlyExtracted[j],
                                       audioProcessor.config.noiseThreshold)]_vars

\* Stream MZa sent a frame and left four bytes buffered; after a stop and
\* the start of MZb the same fragment made the same frame again, and the
\* speech peer's audio was forwarded first as MZa and then as MZb.
RestartStartsCleanWitness ==
    /\ audioProcessor.streamSid = "MZb"
    /\ Len(Audio(dgSent)) = 2
    /\ Audio(dgSent)[1] = Audio(dgSent)[2]
    /\ extracted = <<SubSeq(RestartChunk, 1, 48)>>
    /\ Concat(audioProcessor.inBuffer) = SubSeq(RestartChunk, 49, 52)
    /\ wsSent = <<MediaMessage("MZa", AudioMessage.data),
                  MediaMessage("MZb", AudioMessage.data)>>

\* The fragments a step appended.
NewlyAppended ==
    IF Len(appended') >= Len(appended)
    THEN SubSeq(appended', Len(appended) + 1, Len(appended'))
    ELSE <<>>

\* C30: after every telephony event the frame buffer holds fewer bytes than
\* a frame, whatever the state of the speech peer: the handling of an event
\* extracts as many frames as the buffered bytes and the fragment it
\* appended make up.
BufferBelowFrameSize ==
    /\ [](getBufferSize(audioProcessor.inBuffer) < audioProcessor.config.bufferSize)
    /\ [][\A message \in RelayTwilioMessages :
            OnTwilioMessage(message)
                => Len(NewlyExtracted)
                    = (getBufferSize(audioProcessor.inBuffer)
                       + Len(Concat(NewlyAppended)))
                      \div audioProcessor.config.bufferSize]_vars

\* With the speech peer still connecting, one fragment has just made two
\* frames, which were extracted and dropped, and left bytes buffered.
BufferBelowFrameSizeWitness ==
    /\ dgState = "CONNECTING"
    /\ last.op = "media"
    /\ appended = <<LongChunk>>
    /\ Len(extracted) = 2
    /\ getBufferSize(audioProcessor.inBuffer) = 4
    /\ dgSent = <<>>

\* C31: in the session as wired, with the speech peer open, an inbound
\* fragment of a whole frame that has a non-zero byte and loud samples makes
\* the relay send the speech peer at least one frame.
WiredRelayDelivers ==
    [][(/\ dgState = "OPEN"
        /\ OnTwilioMessage(InboundMedia(FullChunk)))
            => Len(Audio(dgSent')) > Len(Audio(dgSent))]_vars

\* C32: every audio message sent to the speech peer is as long as a frame,
\* bufferSize bytes, the frame size being even; and a step sends audio only
\* while the speech-peer socket is open.
SentFramesWhole ==
    /\ [](audioProcessor.config.bufferSize % 2 = 0
            => \A i \in 1..Len(Audio(dgSent)) :
                Len(Audio(dgSent)[i].data) = audioProcessor.config.bufferSize)
    /\ [][NewlySent # <<>> => dgState = "OPEN"]_vars

\* Frames were extracted while the speech peer was connecting, open and
\* closed: the two it was sent, while open, have the length of a frame.
SentFramesWholeWitness ==
    /\ dgState = "CLOSED"
    /\ Len(Audio(dgSent)) = 2
    /\ \A i \in 1..2 : Len(Audio(dgSent)[i].data) = 48
    /\ Len(extracted) > 2
    /\ last.op = "media"

\* C33: the handling of a media event extracts at most as many frames as
\* the bytes buffered after the append, divided by the frame size and
\* rounded down; every frame extracted has at least one byte, and the
\* buffer is shorter by exactly the bytes extracted, so every turn of the
\* loop leaves fewer bytes buffered than the turn before.
ExtractionLoopTerminates ==
    [][\A message \in LoopTwilioMessages :
        OnTwilioMessage(message)
            => LET buffered == getBufferSize(audioProcessor.inBuffer)
                                + Len(Concat(NewlyAppended))
               IN /\ audioProcessor.config.bufferSize >= 1
                  /\ Len(NewlyExtracted)
                        <= buffered \div audioProcessor.config.bufferSize
                  /\ \A k \in 1..Len(NewlyExtracted) : Len(NewlyExtracted[k]) >= 1
                  /\ getBufferSize(audioProcessor'.inBuffer)
                        = buffered - Len(Concat(NewlyExtracted))]_vars

\* With a frame of 7 bytes, a fragment of 52 bytes appended to 3 buffered
\* bytes has just made 7 frames and left 6 bytes.
ExtractionLoopTerminatesWitness ==
    /\ audioProcessor.config.bufferSize = 7
    /\ last.op = "media"
    /\ appended = <<LoudChunk, RestartChunk>>
    /\ Len(extracted) = 10
    /\ getBufferSize(audioProcessor.inBuffer) = 6

\* C34: the handling of a speech-peer message, whatever its kind, leaves the
\* processor as it is, its frame buffer, streamSid, messageCount and
\* in-flight flag included; a step that changes the processor is the
\* handling of a telephony message.
SpeechPeerMessagesOnlyRead ==
    [][/\ \A m \in ReaderDeepgramMessages :
            OnDeepgramMessage(m, AllReturn)
                => /\ audioProcessor'.inBuffer = audioProcessor.inBuffer
                   /\ audioProcessor'.streamSid = audioProcessor.streamSid
                   /\ audioProcessor'.messageCount = audioProcessor.messageCount
                   /\ audioProcessor'.isProcessingAudio
                        = audioProcessor.isProcessingAudio
                   /\ audioProcessor' = audioProcessor
       /\ audioProcessor' # audioProcessor
            => \E message \in ReaderTwilioMessages : OnTwilioMessage(message)]_vars

\* With a stream started and a fragment buffered, the speech peer's barge-in,
\* raw audio and function call request have been handled and answered, and
\* the fragment is still buffered.
SpeechPeerMessagesOnlyReadWitness ==
    /\ last.op = "deepgramMessage"
    /\ audioProcessor.streamSid = "MZa"
    /\ audioProcessor.inBuffer = <<LoudChunk>>
    /\ audioProcessor.messageCount = 2
    /\ ClearMessage("MZa") \in {wsSent[i] : i \in 1..Len(wsSent)}
    /\ MediaMessage("MZa", AudioMessage.data) \in {wsSent[i] : i \in 1..Len(wsSent)}
    /\ Len(dgSent) = 2
    /\ dgSent[2].type = "FunctionCallResponse"

====
